---- MODULE Spec2Model ----
(***************************************************************************)
(* SheetComparePro: the comparison engine of src/services/excelService.ts  *)
(* (normalizeValue, compareDatasets) modelled as a state machine.          *)
(*                                                                         *)
(* A cell value is a record [t, s, n]: t is the JavaScript type of the     *)
(* value ("undefined", "null", "str", "num"), s the characters of a string *)
(* (a sequence of one-character strings), n the value of a number.         *)
(* A row (RowData) is a function from the column names it holds to cell    *)
(* values; reading a column the row does not hold yields undefined.        *)
(* A Map is a record [keys, val]: keys is the sequence of its keys in      *)
(* insertion order (the order Map.prototype.forEach visits them), val the  *)
(* function from key to value.                                             *)
(* Column names of the datasets are taken not to collide with the three    *)
(* _meta_ fields, so a ProcessedRow keeps its data in the field data.      *)
(*                                                                         *)
(* The App component of src/App.tsx is modelled by the variable app: its   *)
(* useState cells, the readExcelFile promises in flight and the queue of   *)
(* setTimeout callbacks. null is modelled by NoFile, NoRaw, NoError and    *)
(* NoAppResult. Under SpecApp the variables of compareDatasets hold the    *)
(* arguments, locals and return value of the latest call App made.         *)
(***************************************************************************)
EXTENDS Integers, Sequences, FiniteSets

VARIABLES
  baseFile,       \* argument baseFile: [data, columns] (line 56)
  liveFile,       \* argument liveFile: [data, columns] (line 57)
  config,         \* argument config: [primaryKey, ignoreCase] (lines 58-60)
  pc,             \* "start", "indexed", "compared" or "done"
  baseMap,        \* line 63
  liveMap,        \* line 72
  allColumns,     \* line 84
  processedRows,  \* line 86
  stats,          \* line 87
  result,         \* the value returned (lines 168-173)
  app             \* the state of the App component (App.tsx 10-22), its file
                  \* reads in flight and its pending timers

vars == <<baseFile, liveFile, config, pc, baseMap, liveMap, allColumns,
          processedRows, stats, result, app>>

(***************************************************************************)
(* Cell values                                                             *)
(***************************************************************************)
Undefined == [t |-> "undefined", s |-> <<>>, n |-> 0]

Null == [t |-> "null", s |-> <<>>, n |-> 0]

Str(s) == [t |-> "str", s |-> s, n |-> 0]

Num(n) == [t |-> "num", s |-> <<>>, n |-> n]

\* row[col]: undefined when the row does not hold the column
Get(row, col) == IF col \in DOMAIN row THEN row[col] ELSE Undefined

(***************************************************************************)
(* String(val), trim(), toLowerCase()                                      *)
(***************************************************************************)
DigitChar(d) ==
  CASE d = 0 -> "0" [] d = 1 -> "1" [] d = 2 -> "2" [] d = 3 -> "3"
    [] d = 4 -> "4" [] d = 5 -> "5" [] d = 6 -> "6" [] d = 7 -> "7"
    [] d = 8 -> "8" [] d = 9 -> "9"

RECURSIVE NatToString(_)
NatToString(n) ==
  IF n < 10 THEN <<DigitChar(n)>>
  ELSE NatToString(n \div 10) \o <<DigitChar(n % 10)>>

\* String(val) of JavaScript
StringOf(val) ==
  CASE val.t = "str" -> val.s
    [] val.t = "num" -> IF val.n < 0 THEN <<"-">> \o NatToString(-val.n)
                        ELSE NatToString(val.n)
    [] val.t = "null" -> <<"n", "u", "l", "l">>
    [] val.t = "undefined" -> <<"u", "n", "d", "e", "f", "i", "n", "e", "d">>

IsSpace(c) == c = " "

RECURSIVE TrimStart(_)
TrimStart(s) ==
  IF s # <<>> /\ IsSpace(Head(s)) THEN TrimStart(Tail(s)) ELSE s

RECURSIVE TrimEnd(_)
TrimEnd(s) ==
  IF s # <<>> /\ IsSpace(s[Len(s)]) THEN TrimEnd(SubSeq(s, 1, Len(s) - 1)) ELSE s

Trim(s) == TrimEnd(TrimStart(s))

LowerChar(c) ==
  CASE c = "A" -> "a" [] c = "X" -> "x" [] c = "I" -> "i" [] c = "D" -> "d" [] c = "Q" -> "q"
    [] OTHER -> c

ToLowerCase(s) == [i \in 1..Len(s) |-> LowerChar(s[i])]

\* normalizeValue that never folds the case, whatever ignoreCase says
normalizeValueNoFold(val, ignoreCase) ==
  IF val.t = "null" \/ val.t = "undefined" THEN <<>>
  ELSE Trim(StringOf(val))

\* normalizeValue without trim()
normalizeValueNoTrim(val, ignoreCase) ==
  IF val.t = "null" \/ val.t = "undefined" THEN <<>>
  ELSE IF ignoreCase THEN ToLowerCase(StringOf(val)) ELSE StringOf(val)

\* normalizeValue (excelService.ts 46-50)
normalizeValue(val, ignoreCase) ==
  IF val.t = "null" \/ val.t = "undefined" THEN <<>>
  ELSE LET str == Trim(StringOf(val))
       IN  IF ignoreCase THEN ToLowerCase(str) ELSE str

(***************************************************************************)
(* Map                                                                     *)
(***************************************************************************)
EmptyMap == [keys |-> <<>>, val |-> <<>>]

Range(s) == {s[i] : i \in 1..Len(s)}

\* MapSet as an append to a list of entries: a key set twice is listed twice
MapSetAppend(m, k, v) ==
  [keys |-> Append(m.keys, k),
   val |-> [x \in Range(m.keys) \cup {k} |-> IF x = k THEN v ELSE m.val[x]]]

\* MapSet as delete-then-set: a key set again moves to the end
MapSetMoveToEnd(m, k, v) ==
  [keys |-> Append(SelectSeq(m.keys, LAMBDA x : x # k), k),
   val |-> [x \in Range(m.keys) \cup {k} |-> IF x = k THEN v ELSE m.val[x]]]

\* MapSet guarded by has(): the first value of a key is kept
MapSetFirstWins(m, k, v) ==
  IF k \in Range(m.keys) THEN m
  ELSE [keys |-> Append(m.keys, k),
        val |-> [x \in Range(m.keys) \cup {k} |-> IF x = k THEN v ELSE m.val[x]]]

MapHas(m, k) == k \in Range(m.keys)

\* Map.prototype.set: a key already present keeps its place, its value is replaced
MapSet(m, k, v) ==
  IF MapHas(m, k)
  THEN [keys |-> m.keys, val |-> [x \in Range(m.keys) |-> IF x = k THEN v ELSE m.val[x]]]
  ELSE [keys |-> Append(m.keys, k),
        val |-> [x \in Range(m.keys) \cup {k} |-> IF x = k THEN v ELSE m.val[x]]]

\* the guard without its test for the empty string
ValidKeyNoEmptyTest(keyVal) ==
  /\ keyVal.t # "undefined"
  /\ keyVal.t # "null"

\* the guard without its test for undefined
ValidKeyNoUndefinedTest(keyVal) ==
  /\ keyVal.t # "null"
  /\ ~(keyVal.t = "str" /\ keyVal.s = <<>>)

\* the guard of lines 66 and 75
ValidKey(keyVal) ==
  /\ keyVal.t # "undefined"
  /\ keyVal.t # "null"
  /\ ~(keyVal.t = "str" /\ keyVal.s = <<>>)

\* the index keyed by the case-folded key string when ignoreCase is set
RECURSIVE IndexRowsFolded(_, _, _)
IndexRowsFolded(data, cfg, m) ==
  IF data = <<>> THEN m
  ELSE LET row == Head(data)
           keyVal == Get(row, cfg.primaryKey)
           key == IF cfg.ignoreCase THEN ToLowerCase(StringOf(keyVal)) ELSE StringOf(keyVal)
       IN  IndexRowsFolded(Tail(data), cfg,
                           IF ValidKey(keyVal) THEN MapSet(m, key, row) ELSE m)

\* lines 63-69 and 72-78: index the rows of a dataset by String(row[primaryKey])
RECURSIVE IndexRows(_, _, _)
IndexRows(data, cfg, m) ==
  IF data = <<>> THEN m
  ELSE LET row == Head(data)
           keyVal == Get(row, cfg.primaryKey)
       IN  IndexRows(Tail(data), cfg,
                     IF ValidKey(keyVal) THEN MapSet(m, StringOf(keyVal), row) ELSE m)

\* lines 81-84: Array.from(new Set([...baseColumns, ...liveColumns]))
RECURSIVE Dedup(_, _)
Dedup(cols, seen) ==
  IF cols = <<>> THEN seen
  ELSE Dedup(Tail(cols),
             IF Head(cols) \in Range(seen) THEN seen ELSE Append(seen, Head(cols)))

\* the union with the live columns spread first
UnionColumnsLiveFirst(baseColumns, liveColumns) == Dedup(liveColumns \o baseColumns, <<>>)

UnionColumns(baseColumns, liveColumns) == Dedup(baseColumns \o liveColumns, <<>>)

(***************************************************************************)
(* Classification                                                          *)
(***************************************************************************)
\* the comparison of the raw cell values, without normalizeValue
RECURSIVE ChangedColsRaw(_, _, _, _, _)
ChangedColsRaw(cols, baseRow, liveRow, primaryKey, ignoreCase) ==
  IF cols = <<>> THEN <<>>
  ELSE LET col == Head(cols)
           rest == ChangedColsRaw(Tail(cols), baseRow, liveRow, primaryKey, ignoreCase)
       IN  IF col = primaryKey THEN rest
           ELSE IF Get(baseRow, col) # Get(liveRow, col)
                THEN <<col>> \o rest
                ELSE rest

\* the changed columns collected with unshift instead of push
RECURSIVE ChangedColsReversed(_, _, _, _, _)
ChangedColsReversed(cols, baseRow, liveRow, primaryKey, ignoreCase) ==
  IF cols = <<>> THEN <<>>
  ELSE LET col == Head(cols)
           rest == ChangedColsReversed(Tail(cols), baseRow, liveRow, primaryKey, ignoreCase)
       IN  IF col = primaryKey THEN rest
           ELSE IF normalizeValue(Get(baseRow, col), ignoreCase)
                     # normalizeValue(Get(liveRow, col), ignoreCase)
                THEN rest \o <<col>>
                ELSE rest

\* lines 104-125: the columns of the union, the primary key excepted, whose
\* normalized values differ, in union order
RECURSIVE ChangedCols(_, _, _, _, _)
ChangedCols(cols, baseRow, liveRow, primaryKey, ignoreCase) ==
  IF cols = <<>> THEN <<>>
  ELSE LET col == Head(cols)
           rest == ChangedCols(Tail(cols), baseRow, liveRow, primaryKey, ignoreCase)
       IN  IF col = primaryKey THEN rest
           ELSE IF normalizeValue(Get(baseRow, col), ignoreCase)
                     # normalizeValue(Get(liveRow, col), ignoreCase)
                THEN <<col>> \o rest
                ELSE rest

\* the merge with its operands swapped: { ...liveRow, ...baseRow }
MergeRowsBaseWins(baseRow, liveRow) ==
  [c \in DOMAIN baseRow \cup DOMAIN liveRow |->
     IF c \in DOMAIN baseRow THEN baseRow[c] ELSE liveRow[c]]

\* line 132: { ...baseRow, ...liveRow }
MergeRows(baseRow, liveRow) ==
  [c \in DOMAIN baseRow \cup DOMAIN liveRow |->
     IF c \in DOMAIN liveRow THEN liveRow[c] ELSE baseRow[c]]

ProcessedRow(data, type, changed, key) ==
  [data |-> data, _meta_change_type |-> type, _meta_changed_columns |-> changed,
   _meta_row_id |-> key]

\* the callback with isUpdated decided by the two rows holding different
\* contents rather than by the changed columns
CompareBaseRowRawUpdate(baseRow, key, lm, cols, cfg) ==
  IF ~MapHas(lm, key)
  THEN ProcessedRow(baseRow, "REMOVED", <<>>, key)
  ELSE LET liveRow == lm.val[key]
           changedCols == ChangedCols(cols, baseRow, liveRow, cfg.primaryKey, cfg.ignoreCase)
       IN  IF baseRow # liveRow
           THEN ProcessedRow(MergeRows(baseRow, liveRow), "UPDATED", changedCols, key)
           ELSE ProcessedRow(baseRow, "UNCHANGED", <<>>, key)

\* lines 90-150: the callback of baseMap.forEach for one entry
CompareBaseRow(baseRow, key, lm, cols, cfg) ==
  IF ~MapHas(lm, key)
  THEN ProcessedRow(baseRow, "REMOVED", <<>>, key)
  ELSE LET liveRow == lm.val[key]
           changedCols == ChangedCols(cols, baseRow, liveRow, cfg.primaryKey, cfg.ignoreCase)
       IN  IF changedCols # <<>>
           THEN ProcessedRow(MergeRows(baseRow, liveRow), "UPDATED", changedCols, key)
           ELSE ProcessedRow(baseRow, "UNCHANGED", <<>>, key)

\* the counters without the increment of line 148
BumpNoUnchanged(st, type) ==
  CASE type = "REMOVED" -> [st EXCEPT !.removed = @ + 1]
    [] type = "UPDATED" -> [st EXCEPT !.updated = @ + 1]
    [] type = "UNCHANGED" -> st
    [] type = "NEW" -> [st EXCEPT !.new = @ + 1]

\* lines 101, 140, 148, 162: stats.removed++, stats.updated++, ...
Bump(st, type) ==
  CASE type = "REMOVED" -> [st EXCEPT !.removed = @ + 1]
    [] type = "UPDATED" -> [st EXCEPT !.updated = @ + 1]
    [] type = "UNCHANGED" -> [st EXCEPT !.unchanged = @ + 1]
    [] type = "NEW" -> [st EXCEPT !.new = @ + 1]

\* lines 90-151: baseMap.forEach, in insertion order
RECURSIVE BasePass(_, _, _, _, _, _)
BasePass(keys, bm, lm, cols, cfg, acc) ==
  IF keys = <<>> THEN acc
  ELSE LET row == CompareBaseRow(bm.val[Head(keys)], Head(keys), lm, cols, cfg)
       IN  BasePass(Tail(keys), bm, lm, cols, cfg,
                    [rows |-> Append(acc.rows, row),
                     stats |-> Bump(acc.stats, row._meta_change_type)])

\* the live pass without the test of line 155
RECURSIVE LivePassNoTest(_, _, _, _)
LivePassNoTest(keys, bm, lm, acc) ==
  IF keys = <<>> THEN acc
  ELSE LivePassNoTest(Tail(keys), bm, lm,
                      [rows |-> Append(acc.rows,
                                       ProcessedRow(lm.val[Head(keys)], "NEW", <<>>, Head(keys))),
                       stats |-> Bump(acc.stats, "NEW")])

\* lines 154-164: liveMap.forEach, in insertion order
RECURSIVE LivePass(_, _, _, _)
LivePass(keys, bm, lm, acc) ==
  IF keys = <<>> THEN acc
  ELSE LivePass(Tail(keys), bm, lm,
                IF ~MapHas(bm, Head(keys))
                THEN [rows |-> Append(acc.rows,
                                      ProcessedRow(lm.val[Head(keys)], "NEW", <<>>, Head(keys))),
                      stats |-> Bump(acc.stats, "NEW")]
                ELSE acc)

ZeroStats == [total |-> 0, new |-> 0, updated |-> 0, removed |-> 0, unchanged |-> 0]

NoResult == [rows |-> <<>>, allColumns |-> <<>>, stats |-> ZeroStats, primaryKey |-> ""]

\* lines 55-174 as one function of its arguments
compareDatasets(bf, lf, cfg) ==
  LET bm == IndexRows(bf.data, cfg, EmptyMap)
      lm == IndexRows(lf.data, cfg, EmptyMap)
      cols == UnionColumns(bf.columns, lf.columns)
      a1 == BasePass(bm.keys, bm, lm, cols, cfg, [rows |-> <<>>, stats |-> ZeroStats])
      a2 == LivePass(lm.keys, bm, lm, a1)
  IN  [rows |-> a2.rows, allColumns |-> cols,
       stats |-> [a2.stats EXCEPT !.total = Len(a2.rows)],
       primaryKey |-> cfg.primaryKey]

(***************************************************************************)
(* Inputs                                                                  *)
(***************************************************************************)
\* the largest number of rows of the two datasets together
MaxRows == 3

\* the largest number of rows of a dataset compared with itself
MaxSelfRows == 3

\* the values of column id: null, the empty string, two keys that differ in
\* letter case only, a number and the string of its digits
KeyValues == {Null, Str(<<>>), Str(<<"a">>), Str(<<"A">>), Num(1), Str(<<"1">>)}

\* the values of column v: null, blank, and three spellings of one word
CellValues == {Null, Str(<<" ">>), Str(<<"x">>), Str(<<"X">>), Str(<<" ", "x">>)}

\* every id value with one v value, every v value with one id value, a row
\* holding no id and a row holding no v
Rows ==
  {[id |-> k, v |-> Str(<<"x">>)] : k \in KeyValues}
    \cup {[id |-> Str(<<"a">>), v |-> c] : c \in CellValues}
    \cup {[v |-> Str(<<"x">>)], [id |-> Str(<<"a">>)]}

Columns == {"id", "v"}

ColumnLists == {<<"id", "v">>}

Configs == [primaryKey : Columns, ignoreCase : BOOLEAN]

SeqsUpTo(S, n) == UNION {[1..k -> S] : k \in 0..n}

(***************************************************************************)
(* App.tsx: the state of the component                                     *)
(***************************************************************************)
\* the largest number of readExcelFile promises in flight
MaxReads == 1

\* the largest number of pending setTimeout callbacks
MaxTimers == 1

\* column names as characters: the auto-selection reads them
ColID == <<"I", "D">>

ColV == <<"v">>

ColN == <<"n">>

NoFile == [name |-> "", data |-> <<>>, columns |-> <<>>]

NoRaw == [name |-> "", header |-> <<>>, sheet |-> <<>>, valid |-> FALSE]

NoError == "null"

NoAppResult == [rows |-> <<>>, allColumns |-> <<>>, stats |-> ZeroStats, primaryKey |-> <<>>]

\* the files the user may pick: a sheet with the columns v, ID and n, a
\* sheet with the columns v and n whose n cell differs from the first in
\* letter case only, and a file that is no workbook
RawFiles ==
  {[name |-> "a.xlsx", header |-> <<ColV, ColID, ColN>>, valid |-> TRUE,
    sheet |-> <<[c \in {ColV, ColID, ColN} |->
                  CASE c = ColV -> Str(<<"x">>) [] c = ColID -> Num(1) [] c = ColN -> Str(<<"q">>)]>>],
   [name |-> "b.xlsx", header |-> <<ColV, ColN>>, valid |-> TRUE,
    sheet |-> <<[c \in {ColV, ColN} |-> IF c = ColV THEN Str(<<"x">>) ELSE Str(<<"Q">>)]>>],
   [name |-> "x.xlsx", header |-> <<>>, valid |-> FALSE, sheet |-> <<>>]}

FileTypes == {"base", "live"}

\* lines 10-22, with no read in flight and no timer pending
AppInitial ==
  [baseFile |-> NoFile, liveFile |-> NoFile, baseFileRaw |-> NoRaw, liveFileRaw |-> NoRaw,
   loading |-> FALSE, error |-> NoError, primaryKey |-> <<>>, ignoreCase |-> TRUE,
   result |-> NoAppResult,
   reads |-> [k \in RawFiles \X FileTypes |-> 0],
   timers |-> <<>>]

\* excelService.ts 20-27: the keys of all rows, each once, in first-seen order
RECURSIVE RowKeys(_, _)
RowKeys(sheet, header) ==
  IF sheet = <<>> THEN <<>>
  ELSE SelectSeq(header, LAMBDA c : c \in DOMAIN Head(sheet)) \o RowKeys(Tail(sheet), header)

\* excelService.ts 7-41: the FileData readExcelFile resolves with
ReadExcelFile(raw) ==
  [name |-> raw.name, data |-> raw.sheet, columns |-> Dedup(RowKeys(raw.sheet, raw.header), <<>>)]

\* lines 25-29
CommonColumns(a) ==
  IF a.baseFile = NoFile \/ a.liveFile = NoFile THEN <<>>
  ELSE SelectSeq(a.liveFile.columns, LAMBDA c : c \in Range(a.baseFile.columns))

\* String.prototype.includes
Includes(str, sub) ==
  \E n \in 1..(Len(str) - Len(sub) + 1) : SubSeq(str, n, n + Len(sub) - 1) = sub

\* the predicate of line 88
IsKeyLike(c) ==
  \/ ToLowerCase(c) = <<"i", "d">>
  \/ Includes(ToLowerCase(c), <<"c", "o", "d", "e">>)
  \/ Includes(ToLowerCase(c), <<"k", "e", "y">>)

\* lines 86-92: the effect that runs after every render that changed
\* commonColumns or primaryKey
AutoSelect(a) ==
  LET cc == CommonColumns(a)
      found == SelectSeq(cc, IsKeyLike)
  IN  IF Len(cc) > 0 /\ a.primaryKey = <<>>
      THEN [a EXCEPT !.primaryKey = IF found # <<>> THEN Head(found) ELSE Head(cc)]
      ELSE a

RECURSIVE SumOver(_, _)
SumOver(f, S) ==
  IF S = {} THEN 0
  ELSE LET x == CHOOSE y \in S : TRUE IN f[x] + SumOver(f, S \ {x})

\* the number of reads in flight
ReadsInFlight == SumOver(app.reads, DOMAIN app.reads)

\* line 128: the two upload cards are rendered
InputShown == app.result = NoAppResult

\* line 150: the configuration card is rendered
ConfigShown == app.baseFile # NoFile /\ app.liveFile # NoFile /\ app.result = NoAppResult

Start ==
  /\ pc = "start"
  /\ baseMap = EmptyMap
  /\ liveMap = EmptyMap
  /\ allColumns = <<>>
  /\ processedRows = <<>>
  /\ stats = ZeroStats
  /\ result = NoResult
  /\ app = AppInitial

Init ==
  /\ \E nb \in 0..MaxRows :
       \E bd \in [1..nb -> Rows], ld \in SeqsUpTo(Rows, MaxRows - nb) :
         \E bc \in ColumnLists, lc \in ColumnLists :
           /\ baseFile = [data |-> bd, columns |-> bc]
           /\ liveFile = [data |-> ld, columns |-> lc]
  /\ config \in Configs
  /\ Start

\* a dataset compared with itself
InitSelf ==
  /\ \E d \in SeqsUpTo(Rows, MaxSelfRows), c \in ColumnLists :
       /\ baseFile = [data |-> d, columns |-> c]
       /\ liveFile = baseFile
  /\ config \in Configs
  /\ Start

\* the largest number of entries of a declared column list
MaxCols == 2

\* the column names a list may declare
ColumnNames == {"id", "v", "w"}

\* rows of key "a" over the columns v and w: v null, blank, a word or not
\* held; w in two spellings
ColRows ==
  {[id |-> Str(<<"a">>), v |-> c, w |-> d] :
     c \in {Null, Str(<<" ">>), Str(<<"x">>)}, d \in {Str(<<"x">>), Str(<<"X">>)}}
    \cup {[id |-> Str(<<"a">>), w |-> d] : d \in {Str(<<"x">>), Str(<<"X">>)}}

\* datasets of no row or one row
ColDatasets == {<<>>} \cup {<<r>> : r \in ColRows}

\* datasets whose declared column lists vary: any order, repeated names,
\* names no row holds, columns of the rows left undeclared
InitCols ==
  /\ \E bd \in ColDatasets, ld \in ColDatasets :
       \E bc \in SeqsUpTo(ColumnNames, MaxCols), lc \in SeqsUpTo(ColumnNames, MaxCols) :
         /\ baseFile = [data |-> bd, columns |-> bc]
         /\ liveFile = [data |-> ld, columns |-> lc]
  /\ config \in [primaryKey : {"id"}, ignoreCase : BOOLEAN]
  /\ Start

(***************************************************************************)
(* compareDatasets, in three steps                                         *)
(***************************************************************************)
\* lines 60-84: the two indexes and the column union
Index ==
  /\ pc = "start"
  /\ baseMap' = IndexRows(baseFile.data, config, EmptyMap)
  /\ liveMap' = IndexRows(liveFile.data, config, EmptyMap)
  /\ allColumns' = UnionColumns(baseFile.columns, liveFile.columns)
  /\ pc' = "indexed"
  /\ UNCHANGED <<baseFile, liveFile, config, processedRows, stats, result, app>>

\* lines 86-151: REMOVED, UPDATED and UNCHANGED rows
CompareBase ==
  /\ pc = "indexed"
  /\ LET acc == BasePass(baseMap.keys, baseMap, liveMap, allColumns, config,
                         [rows |-> <<>>, stats |-> ZeroStats])
     IN  /\ processedRows' = acc.rows
         /\ stats' = acc.stats
  /\ pc' = "compared"
  /\ UNCHANGED <<baseFile, liveFile, config, baseMap, liveMap, allColumns, result, app>>

\* lines 153-173: NEW rows, the total, the result
CheckNew ==
  /\ pc = "compared"
  /\ LET acc == LivePass(liveMap.keys, baseMap, liveMap,
                         [rows |-> processedRows, stats |-> stats])
         st == [acc.stats EXCEPT !.total = Len(acc.rows)]
     IN  /\ processedRows' = acc.rows
         /\ stats' = st
         /\ result' = [rows |-> acc.rows, allColumns |-> allColumns, stats |-> st,
                       primaryKey |-> config.primaryKey]
  /\ pc' = "done"
  /\ UNCHANGED <<baseFile, liveFile, config, baseMap, liveMap, allColumns, app>>

Next == Index \/ CompareBase \/ CheckNew

Spec == Init /\ [][Next]_vars

SpecSelf == InitSelf /\ [][Next]_vars

SpecCols == InitCols /\ [][Next]_vars

(***************************************************************************)
(* App.tsx: the handlers. Every action ends with the effect of lines 86-92 *)
(***************************************************************************)
engineVars == <<baseFile, liveFile, config, pc, baseMap, liveMap, allColumns,
                processedRows, stats, result>>

\* the component is mounted and compareDatasets has not been called
InitApp ==
  /\ baseFile = NoFile
  /\ liveFile = NoFile
  /\ config = [primaryKey |-> <<>>, ignoreCase |-> TRUE]
  /\ Start

\* lines 32-36: a file is dropped on an empty upload card; the read starts
SelectFile(raw, type) ==
  /\ InputShown
  /\ IF type = "base" THEN app.baseFileRaw = NoRaw ELSE app.liveFileRaw = NoRaw
  /\ ReadsInFlight < MaxReads
  /\ app' = AutoSelect([app EXCEPT !.error = NoError, !.loading = TRUE,
                                   !.reads[<<raw, type>>] = @ + 1])
  /\ UNCHANGED engineVars

\* lines 36-49: a read settles; it resolves for a workbook and rejects otherwise
ReadSettles(raw, type) ==
  /\ app.reads[<<raw, type>>] > 0
  /\ LET a == [app EXCEPT !.reads[<<raw, type>>] = @ - 1, !.loading = FALSE]
     IN  app' = AutoSelect(
           IF ~raw.valid
           THEN [a EXCEPT !.error = IF type = "base" THEN "Failed to read base file"
                                    ELSE "Failed to read live file"]
           ELSE IF type = "base"
           THEN [a EXCEPT !.baseFileRaw = raw, !.baseFile = ReadExcelFile(raw)]
           ELSE [a EXCEPT !.liveFileRaw = raw, !.liveFile = ReadExcelFile(raw)])
  /\ UNCHANGED engineVars

\* lines 135 and 143: the clear button of a filled upload card
ClearFile(type) ==
  /\ InputShown
  /\ IF type = "base" THEN app.baseFileRaw # NoRaw ELSE app.liveFileRaw # NoRaw
  /\ app' = AutoSelect(
       IF type = "base"
       THEN [app EXCEPT !.baseFile = NoFile, !.baseFileRaw = NoRaw]
       ELSE [app EXCEPT !.liveFile = NoFile, !.liveFileRaw = NoRaw])
  /\ UNCHANGED engineVars

\* lines 158-167: another option of the select is chosen
SelectPrimaryKey(col) ==
  /\ ConfigShown
  /\ col \in Range(CommonColumns(app))
  /\ col # app.primaryKey
  /\ app' = AutoSelect([app EXCEPT !.primaryKey = col])
  /\ UNCHANGED engineVars

\* lines 173-178
ToggleIgnoreCase ==
  /\ ConfigShown
  /\ app' = AutoSelect([app EXCEPT !.ignoreCase = ~@])
  /\ UNCHANGED engineVars

\* lines 52-56 and 185-187: the Compare button is clicked; the callback takes
\* the state of this render with it
handleProcess ==
  /\ ConfigShown
  /\ ~app.loading /\ app.primaryKey # <<>>
  /\ ~(app.baseFile = NoFile \/ app.liveFile = NoFile \/ app.primaryKey = <<>>)
  /\ Len(app.timers) < MaxTimers
  /\ app' = AutoSelect([app EXCEPT !.loading = TRUE,
                                   !.timers = Append(@, [baseFile |-> app.baseFile,
                                                         liveFile |-> app.liveFile,
                                                         primaryKey |-> app.primaryKey,
                                                         ignoreCase |-> app.ignoreCase])])
  /\ UNCHANGED engineVars

\* lines 56-66: the oldest pending callback runs compareDatasets on what it
\* took with it
TimerFires ==
  /\ app.timers # <<>>
  /\ LET t == Head(app.timers)
         cfg == [primaryKey |-> t.primaryKey, ignoreCase |-> t.ignoreCase]
         res == compareDatasets(t.baseFile, t.liveFile, cfg)
     IN  /\ baseFile' = t.baseFile
         /\ liveFile' = t.liveFile
         /\ config' = cfg
         /\ baseMap' = IndexRows(t.baseFile.data, cfg, EmptyMap)
         /\ liveMap' = IndexRows(t.liveFile.data, cfg, EmptyMap)
         /\ allColumns' = res.allColumns
         /\ processedRows' = res.rows
         /\ stats' = res.stats
         /\ result' = res
         /\ pc' = "done"
         /\ app' = AutoSelect([app EXCEPT !.result = res, !.loading = FALSE,
                                          !.timers = Tail(@)])

\* lines 69-77 and 109-117: Start Over
handleReset ==
  /\ app.result # NoAppResult
  /\ app' = AutoSelect([app EXCEPT !.baseFile = NoFile, !.liveFile = NoFile,
                                   !.baseFileRaw = NoRaw, !.liveFileRaw = NoRaw,
                                   !.primaryKey = <<>>, !.result = NoAppResult,
                                   !.error = NoError])
  /\ UNCHANGED engineVars

NextApp ==
  \/ \E raw \in RawFiles, type \in FileTypes : SelectFile(raw, type)
  \/ \E raw \in RawFiles, type \in FileTypes : ReadSettles(raw, type)
  \/ \E type \in FileTypes : ClearFile(type)
  \/ \E col \in {ColV, ColID, ColN} : SelectPrimaryKey(col)
  \/ ToggleIgnoreCase
  \/ handleProcess
  \/ TimerFires
  \/ handleReset

SpecApp == InitApp /\ [][NextApp]_vars

(***************************************************************************)
(* Vocabulary of the properties, defined on the inputs and the result      *)
(***************************************************************************)
Done == pc = "done"

\* a primary-key value that is absent (undefined), null or the empty string
EmptyKey(keyVal) == keyVal \in {Undefined, Null, Str(<<>>)}

\* the positions of the rows of a dataset whose primary-key value is not empty
ValidIdx(data, pk) == {i \in 1..Len(data) : ~EmptyKey(Get(data[i], pk))}

\* the key string of row i
KeyAt(data, pk, i) == StringOf(Get(data[i], pk))

\* the key strings of the valid-keyed rows of a dataset
KeysOf(data, pk) == {KeyAt(data, pk, i) : i \in ValidIdx(data, pk)}

\* the positions of the valid-keyed rows with key string k
IdxOf(data, pk, k) == {i \in ValidIdx(data, pk) : KeyAt(data, pk, i) = k}

MaxOf(S) == CHOOSE x \in S : \A y \in S : y <= x

MinOf(S) == CHOOSE x \in S : \A y \in S : x <= y

BaseKeys == KeysOf(baseFile.data, config.primaryKey)

LiveKeys == KeysOf(liveFile.data, config.primaryKey)

ResultIdx == 1..Len(result.rows)

RowsOfType(type) == {i \in ResultIdx : result.rows[i]._meta_change_type = type}

\* some column of the union, the primary key excepted, differs after
\* normalization between the indexed base row and the indexed live row of key k
Differs(k) ==
  \E c \in Range(result.allColumns) \ {config.primaryKey} :
    normalizeValue(Get(baseMap.val[k], c), config.ignoreCase)
      # normalizeValue(Get(liveMap.val[k], c), config.ignoreCase)

(***************************************************************************)
(* C1. Stat identity: in every result, total = new + updated + removed +   *)
(* unchanged = the number of result rows, and each counter is the number   *)
(* of result rows of its classification.                                   *)
(***************************************************************************)
C1_StatIdentity ==
  Done =>
    /\ result.stats.total = result.stats.new + result.stats.updated
                              + result.stats.removed + result.stats.unchanged
    /\ result.stats.total = Len(result.rows)
    /\ result.stats.new = Cardinality(RowsOfType("NEW"))
    /\ result.stats.updated = Cardinality(RowsOfType("UPDATED"))
    /\ result.stats.removed = Cardinality(RowsOfType("REMOVED"))
    /\ result.stats.unchanged = Cardinality(RowsOfType("UNCHANGED"))

\* a result that counts rows of two classifications at once
C1_Witness ==
  /\ Done
  /\ result.stats.new >= 1
  /\ result.stats.updated >= 1
  /\ result.stats.total = 2

(***************************************************************************)
(* C2. Partition completeness: every key string of a valid-keyed row of    *)
(* the base or the live dataset is the _meta_row_id of exactly one result  *)
(* row, and no result row has another key.                                 *)
(***************************************************************************)
C2_PartitionComplete ==
  Done =>
    /\ \A k \in BaseKeys \cup LiveKeys :
         Cardinality({i \in ResultIdx : result.rows[i]._meta_row_id = k}) = 1
    /\ \A i \in ResultIdx : result.rows[i]._meta_row_id \in BaseKeys \cup LiveKeys

\* a key held by two rows of the base dataset and by a row of the live dataset
C2_Witness ==
  /\ Done
  /\ \E k \in BaseKeys \cap LiveKeys :
       Cardinality(IdxOf(baseFile.data, config.primaryKey, k)) = 2

(***************************************************************************)
(* C3. Classification correctness: a result row of key k is REMOVED iff k  *)
(* is indexed in base only, NEW iff in live only, UPDATED iff in both and  *)
(* some column of the union other than the primary key differs after       *)
(* normalization, UNCHANGED iff in both and no such column differs.        *)
(***************************************************************************)
C3_Classification ==
  Done =>
    \A i \in ResultIdx :
      LET k == result.rows[i]._meta_row_id
          type == result.rows[i]._meta_change_type
          inBase == MapHas(baseMap, k)
          inLive == MapHas(liveMap, k)
      IN  /\ type = "REMOVED" <=> (inBase /\ ~inLive)
          /\ type = "NEW" <=> (~inBase /\ inLive)
          /\ type = "UPDATED" <=> (inBase /\ inLive /\ Differs(k))
          /\ type = "UNCHANGED" <=> (inBase /\ inLive /\ ~Differs(k))

\* a matched pair whose cells differ in spelling only (blank, case, spaces)
\* next to a removed row
C3_Witness ==
  /\ Done
  /\ RowsOfType("REMOVED") # {}
  /\ \E i \in RowsOfType("UNCHANGED") :
       LET k == result.rows[i]._meta_row_id
       IN  baseMap.val[k] # liveMap.val[k]

(***************************************************************************)
(* C4. Merge correctness: in an UPDATED row of key k every column holds    *)
(* the indexed live row's value when the live row holds the column, and    *)
(* the indexed base row's value otherwise.                                 *)
(***************************************************************************)
C4_MergeCorrect ==
  Done =>
    \A i \in RowsOfType("UPDATED") :
      LET k == result.rows[i]._meta_row_id
          data == result.rows[i].data
      IN  /\ DOMAIN data = DOMAIN baseMap.val[k] \cup DOMAIN liveMap.val[k]
          /\ \A c \in Columns :
               Get(data, c) = IF c \in DOMAIN liveMap.val[k] THEN liveMap.val[k][c]
                              ELSE Get(baseMap.val[k], c)

\* an UPDATED row that keeps a column only its base row holds
C4_Witness ==
  /\ Done
  /\ \E i \in RowsOfType("UPDATED") :
       LET k == result.rows[i]._meta_row_id
       IN  \E c \in DOMAIN baseMap.val[k] \ DOMAIN liveMap.val[k] :
             /\ c \in DOMAIN result.rows[i].data
             /\ result.rows[i].data[c] = baseMap.val[k][c]

(***************************************************************************)
(* Vocabulary of the properties about row order, empty keys and duplicates *)
(***************************************************************************)
\* the position in a dataset of the last (first) valid-keyed row of key k
LastIdx(data, pk, k) == MaxOf(IdxOf(data, pk, k))

FirstIdx(data, pk, k) == MinOf(IdxOf(data, pk, k))

RowId(i) == result.rows[i]._meta_row_id

RowType(i) == result.rows[i]._meta_change_type

\* the rows of data at the positions of S, in dataset order
RECURSIVE Pick(_, _, _)
Pick(data, S, i) ==
  IF i > Len(data) THEN <<>>
  ELSE (IF i \in S THEN <<data[i]>> ELSE <<>>) \o Pick(data, S, i + 1)

\* a dataset without its empty-keyed rows
WithoutEmptyKeys(file, pk) ==
  [file EXCEPT !.data = Pick(file.data, ValidIdx(file.data, pk), 1)]

\* a dataset without the rows that a later row of the same key shadows
WithoutShadowed(file, pk) ==
  [file EXCEPT !.data =
     Pick(file.data,
          {i \in 1..Len(file.data) :
             i \in ValidIdx(file.data, pk)
               => i = LastIdx(file.data, pk, KeyAt(file.data, pk, i))},
          1)]

(***************************************************************************)
(* C5 as stated. Result ordering: the rows derived from base come first,   *)
(* then the NEW rows; the base-derived rows stand in the order of the base *)
(* rows whose data they carry (the last row of each key), the NEW rows in  *)
(* the order of the live rows whose data they carry.                       *)
(***************************************************************************)
C5_OrderOfCarriedRows ==
  Done =>
    \A i, j \in ResultIdx :
      i < j =>
        /\ RowType(i) = "NEW" => RowType(j) = "NEW"
        /\ (RowType(i) # "NEW" /\ RowType(j) # "NEW") =>
             LastIdx(baseFile.data, config.primaryKey, RowId(i))
               < LastIdx(baseFile.data, config.primaryKey, RowId(j))
        /\ (RowType(i) = "NEW" /\ RowType(j) = "NEW") =>
             LastIdx(liveFile.data, config.primaryKey, RowId(i))
               < LastIdx(liveFile.data, config.primaryKey, RowId(j))

(***************************************************************************)
(* C5 as amended. The rows derived from base come first, then the NEW      *)
(* rows; the base-derived rows stand in the order in which their keys      *)
(* first occur in the base dataset, the NEW rows in the order in which     *)
(* their keys first occur in the live dataset.                             *)
(***************************************************************************)
C5_OrderOfFirstOccurrence ==
  Done =>
    \A i, j \in ResultIdx :
      i < j =>
        /\ RowType(i) = "NEW" => RowType(j) = "NEW"
        /\ (RowType(i) # "NEW" /\ RowType(j) # "NEW") =>
             FirstIdx(baseFile.data, config.primaryKey, RowId(i))
               < FirstIdx(baseFile.data, config.primaryKey, RowId(j))
        /\ (RowType(i) = "NEW" /\ RowType(j) = "NEW") =>
             FirstIdx(liveFile.data, config.primaryKey, RowId(i))
               < FirstIdx(liveFile.data, config.primaryKey, RowId(j))

\* two base-derived rows of which the first carries the data of the later
\* base row, its key being repeated after the other key
C5_Witness ==
  /\ Done
  /\ \E i, j \in ResultIdx :
       /\ i < j
       /\ RowType(i) # "NEW"
       /\ RowType(j) # "NEW"
       /\ LastIdx(baseFile.data, config.primaryKey, RowId(i))
            > LastIdx(baseFile.data, config.primaryKey, RowId(j))
       /\ result.rows[i].data = baseFile.data[3]

(***************************************************************************)
(* C6. A result row's _meta_changed_columns is non-empty iff the row is    *)
(* UPDATED; it is the empty list for NEW, REMOVED and UNCHANGED rows.      *)
(***************************************************************************)
C6_ChangedIffUpdated ==
  Done =>
    \A i \in ResultIdx :
      (result.rows[i]._meta_changed_columns # <<>>) <=> (RowType(i) = "UPDATED")

\* an UPDATED row listing one column next to a REMOVED or NEW row listing none
C6_Witness ==
  /\ Done
  /\ \E i \in RowsOfType("UPDATED") : Len(result.rows[i]._meta_changed_columns) = 1
  /\ \E i \in RowsOfType("REMOVED") \cup RowsOfType("NEW") :
       result.rows[i]._meta_changed_columns = <<>>

(***************************************************************************)
(* C7. Self-comparison: a dataset compared with itself, under any config,  *)
(* yields updated = 0, new = 0, removed = 0 and unchanged = total.         *)
(***************************************************************************)
C7_SelfComparison ==
  (Done /\ baseFile = liveFile) =>
    /\ result.stats.updated = 0
    /\ result.stats.new = 0
    /\ result.stats.removed = 0
    /\ result.stats.unchanged = result.stats.total

\* a dataset with two different rows of one key, an empty-keyed row and a
\* null cell, compared with itself
C7_Witness ==
  /\ Done
  /\ baseFile = liveFile
  /\ result.stats.total >= 1
  /\ \E i, j \in ValidIdx(baseFile.data, config.primaryKey) :
       /\ i < j
       /\ KeyAt(baseFile.data, config.primaryKey, i) = KeyAt(baseFile.data, config.primaryKey, j)
       /\ baseFile.data[i] # baseFile.data[j]
       /\ \E c \in DOMAIN baseFile.data[i] : baseFile.data[i][c] = Null
  /\ ValidIdx(baseFile.data, config.primaryKey) # 1..Len(baseFile.data)

(***************************************************************************)
(* C8. Empty-key exclusion: a row whose primary-key value is absent, null  *)
(* or the empty string is never indexed, and the result (rows and          *)
(* counters) is the one the datasets yield without their empty-keyed rows. *)
(***************************************************************************)
C8_EmptyKeyExcluded ==
  /\ \A k \in Range(baseMap.keys) : ~EmptyKey(Get(baseMap.val[k], config.primaryKey))
  /\ \A k \in Range(liveMap.keys) : ~EmptyKey(Get(liveMap.val[k], config.primaryKey))
  /\ Done =>
       /\ result = compareDatasets(WithoutEmptyKeys(baseFile, config.primaryKey),
                                   WithoutEmptyKeys(liveFile, config.primaryKey), config)
       /\ result.stats.total <= Cardinality(ValidIdx(baseFile.data, config.primaryKey))
                                  + Cardinality(ValidIdx(liveFile.data, config.primaryKey))

\* the empty string as key in base and in live, and a row without the key
\* column: nothing is emitted
C8_Witness ==
  /\ Done
  /\ \E i \in 1..Len(baseFile.data) : Get(baseFile.data[i], config.primaryKey) = Str(<<>>)
  /\ \E i \in 1..Len(liveFile.data) : Get(liveFile.data[i], config.primaryKey) = Str(<<>>)
  /\ \E i \in 1..Len(liveFile.data) : config.primaryKey \notin DOMAIN liveFile.data[i]
  /\ result.rows = <<>>
  /\ result.stats = ZeroStats

(***************************************************************************)
(* C9. Duplicate-key policy: the index maps a key to the last row of that  *)
(* key in dataset order, and the result rows (classification, changed      *)
(* columns, emitted values) and the counters are those the datasets yield  *)
(* without the earlier duplicates.                                         *)
(***************************************************************************)
C9_LastWriteWins ==
  Done =>
    LET other == compareDatasets(WithoutShadowed(baseFile, config.primaryKey),
                                 WithoutShadowed(liveFile, config.primaryKey), config)
    IN  /\ \A k \in Range(baseMap.keys) :
             baseMap.val[k] = baseFile.data[LastIdx(baseFile.data, config.primaryKey, k)]
        /\ \A k \in Range(liveMap.keys) :
             liveMap.val[k] = liveFile.data[LastIdx(liveFile.data, config.primaryKey, k)]
        /\ Range(result.rows) = Range(other.rows)
        /\ result.stats = other.stats

\* a key with two base rows of which the first equals the live row: the
\* result row is UPDATED, from the second
C9_Witness ==
  /\ Done
  /\ \E i \in RowsOfType("UPDATED") :
       LET idx == IdxOf(baseFile.data, config.primaryKey, RowId(i))
       IN  /\ Cardinality(idx) = 2
           /\ baseFile.data[MinOf(idx)] = liveMap.val[RowId(i)]

(***************************************************************************)
(* C10. ignoreCase has no effect on key matching: the run with the other   *)
(* value of ignoreCase yields the same sequence of _meta_row_id and the    *)
(* same split into REMOVED, NEW and matched rows, and a row is matched     *)
(* only when its exact key string occurs in both datasets.                 *)
(***************************************************************************)
Split(type) == IF type \in {"UPDATED", "UNCHANGED"} THEN "MATCHED" ELSE type

C10_IgnoreCaseNotOnKeys ==
  Done =>
    LET other == compareDatasets(baseFile, liveFile,
                                 [config EXCEPT !.ignoreCase = ~config.ignoreCase])
    IN  /\ Len(other.rows) = Len(result.rows)
        /\ \A i \in ResultIdx :
             /\ other.rows[i]._meta_row_id = RowId(i)
             /\ Split(other.rows[i]._meta_change_type) = Split(RowType(i))
             /\ Split(RowType(i)) = "MATCHED" <=> RowId(i) \in BaseKeys \cap LiveKeys

\* ignoreCase set, a base key and a live key that differ in letter case only:
\* one row is REMOVED, the other NEW
C10_Witness ==
  /\ Done
  /\ config.ignoreCase
  /\ \E i \in RowsOfType("REMOVED"), j \in RowsOfType("NEW") :
       /\ RowId(i) # RowId(j)
       /\ ToLowerCase(RowId(i)) = ToLowerCase(RowId(j))

(***************************************************************************)
(* C11. Case-insensitivity toggle: a matched pair of rows whose only       *)
(* difference is one non-key column (of the column union) holding strings  *)
(* that differ in letter case only is UNCHANGED when ignoreCase is true,   *)
(* and UPDATED with exactly that column listed when ignoreCase is false.   *)
(***************************************************************************)
\* rows b and l differ in column c alone, by the letter case of a string
CaseOnlyDiff(b, l, c) ==
  /\ DOMAIN b = DOMAIN l
  /\ c \in DOMAIN b
  /\ \A d \in DOMAIN b \ {c} : b[d] = l[d]
  /\ b[c].t = "str"
  /\ l[c].t = "str"
  /\ b[c].s # l[c].s
  /\ Len(b[c].s) = Len(l[c].s)
  /\ \A n \in 1..Len(b[c].s) : LowerChar(b[c].s[n]) = LowerChar(l[c].s[n])

C11_CaseToggle ==
  Done =>
    \A i \in ResultIdx :
      LET k == RowId(i)
      IN  (MapHas(baseMap, k) /\ MapHas(liveMap, k)) =>
            \A c \in Range(result.allColumns) \ {config.primaryKey} :
              CaseOnlyDiff(baseMap.val[k], liveMap.val[k], c) =>
                IF config.ignoreCase
                THEN /\ RowType(i) = "UNCHANGED"
                     /\ result.rows[i]._meta_changed_columns = <<>>
                ELSE /\ RowType(i) = "UPDATED"
                     /\ result.rows[i]._meta_changed_columns = <<c>>

\* ignoreCase false, a matched pair that differs by "x" against "X" in one
\* column: the row is UPDATED and lists that column
C11_Witness ==
  /\ Done
  /\ ~config.ignoreCase
  /\ \E i \in RowsOfType("UPDATED") :
       /\ MapHas(baseMap, RowId(i))
       /\ MapHas(liveMap, RowId(i))
       /\ \E c \in Range(result.allColumns) \ {config.primaryKey} :
            /\ CaseOnlyDiff(baseMap.val[RowId(i)], liveMap.val[RowId(i)], c)
            /\ result.rows[i]._meta_changed_columns = <<c>>

(***************************************************************************)
(* Vocabulary of C12: a dataset none of whose rows holds the primary key   *)
(***************************************************************************)
\* the dataset has rows, and none of them holds the column pk
KeyAbsent(file, pk) ==
  /\ file.data # <<>>
  /\ \A i \in 1..Len(file.data) : pk \notin DOMAIN file.data[i]

\* every row of the dataset is the data of a result row of the given type
AllRowsEmittedAs(file, type) ==
  \A i \in 1..Len(file.data) :
    \E j \in RowsOfType(type) : result.rows[j].data = file.data[i]

(***************************************************************************)
(* C12 as stated. With a primary key absent from all rows of one dataset,  *)
(* the run ends without error and each row of that dataset appears in the  *)
(* result, as REMOVED for the base dataset and as NEW for the live one.    *)
(***************************************************************************)
C12_AbsentKeyRowsUnmatched ==
  /\ (KeyAbsent(baseFile, config.primaryKey) /\ Done) => AllRowsEmittedAs(baseFile, "REMOVED")
  /\ (KeyAbsent(liveFile, config.primaryKey) /\ Done) => AllRowsEmittedAs(liveFile, "NEW")

(***************************************************************************)
(* C12 as amended. With a primary key absent from all rows of one dataset, *)
(* the run ends without error and no row of that dataset appears in the    *)
(* result; it is the keys of the other dataset that are all unmatched:     *)
(* every result row is NEW when the base dataset lacks the key, and every  *)
(* result row is REMOVED when the live dataset lacks it, one row per key   *)
(* of the other dataset.                                                   *)
(***************************************************************************)
C12_AbsentKeyDatasetDropped ==
  /\ (KeyAbsent(baseFile, config.primaryKey) \/ KeyAbsent(liveFile, config.primaryKey)) =>
       (Done \/ ENABLED Next)
  /\ (KeyAbsent(baseFile, config.primaryKey) /\ Done) =>
       /\ baseMap.keys = <<>>
       /\ \A j \in ResultIdx : RowType(j) = "NEW"
       /\ {RowId(j) : j \in ResultIdx} = LiveKeys
       /\ result.stats.total = Cardinality(LiveKeys)
  /\ (KeyAbsent(liveFile, config.primaryKey) /\ Done) =>
       /\ liveMap.keys = <<>>
       /\ \A j \in ResultIdx : RowType(j) = "REMOVED"
       /\ {RowId(j) : j \in ResultIdx} = BaseKeys
       /\ result.stats.total = Cardinality(BaseKeys)

\* two base rows without the key column and a keyed live row: the result is
\* the one NEW row
C12_Witness ==
  /\ Done
  /\ KeyAbsent(baseFile, config.primaryKey)
  /\ Len(baseFile.data) = 2
  /\ LiveKeys # {}
  /\ result.stats.total = 1
  /\ RowType(1) = "NEW"

(***************************************************************************)
(* Vocabulary of C13 and C14: declared columns                             *)
(***************************************************************************)
\* the position of the first occurrence of column c in the list cols
FirstPos(cols, c) == MinOf({n \in 1..Len(cols) : cols[n] = c})

\* the position of column c in the column union of the result
UnionPos(c) == FirstPos(result.allColumns, c)

\* null, absent, empty or made of white space only
Blank(val) ==
  \/ val \in {Undefined, Null}
  \/ (val.t = "str" /\ \A n \in 1..Len(val.s) : val.s[n] = " ")

\* the normalized values of column c differ between the indexed rows of key k
ColumnDiffers(k, c) ==
  normalizeValue(Get(baseMap.val[k], c), config.ignoreCase)
    # normalizeValue(Get(liveMap.val[k], c), config.ignoreCase)

(***************************************************************************)
(* C13. Column union: result.allColumns holds every column name declared   *)
(* in baseFile.columns or liveFile.columns exactly once, the base columns  *)
(* first in the order of their first occurrence, then the live-only        *)
(* columns in the order of their first occurrence; the primary key is not  *)
(* moved to the front.                                                     *)
(***************************************************************************)
C13_ColumnUnion ==
  Done =>
    LET cols == result.allColumns
        inBase == Range(baseFile.columns)
        inLive == Range(liveFile.columns)
    IN  /\ Range(cols) = inBase \cup inLive
        /\ \A m, n \in 1..Len(cols) : m # n => cols[m] # cols[n]
        /\ \A c, d \in inBase :
             FirstPos(baseFile.columns, c) < FirstPos(baseFile.columns, d)
               => UnionPos(c) < UnionPos(d)
        /\ \A c \in inBase, d \in inLive \ inBase : UnionPos(c) < UnionPos(d)
        /\ \A c, d \in inLive \ inBase :
             FirstPos(liveFile.columns, c) < FirstPos(liveFile.columns, d)
               => UnionPos(c) < UnionPos(d)

\* a base list that repeats a name, a live list that adds a live-only column
\* after a shared one, and the primary key last in the union
C13_Witness ==
  /\ Done
  /\ baseFile.columns = <<"v", "v">>
  /\ liveFile.columns = <<"v", "id">>
  /\ result.allColumns = <<"v", "id">>
  /\ result.primaryKey = "id"

(***************************************************************************)
(* C14. For every UPDATED row, _meta_changed_columns is the subsequence of *)
(* result.allColumns, in union order and without repetition, of the        *)
(* columns other than the primary key whose normalized values differ; the  *)
(* primary key is never listed, and an absent or null cell compares equal  *)
(* to an empty or whitespace-only cell.                                    *)
(***************************************************************************)
C14_ChangedColumns ==
  Done =>
    \A i \in RowsOfType("UPDATED") :
      LET k == RowId(i)
          changed == result.rows[i]._meta_changed_columns
      IN  /\ changed = SelectSeq(result.allColumns,
                                 LAMBDA c : c # config.primaryKey /\ ColumnDiffers(k, c))
          /\ \A m, n \in 1..Len(changed) : m # n => changed[m] # changed[n]
          /\ config.primaryKey \notin Range(changed)
          /\ \A c \in Range(result.allColumns) :
               (Blank(Get(baseMap.val[k], c)) /\ Blank(Get(liveMap.val[k], c)))
                 => c \notin Range(changed)

\* the union lists w before v; v is absent in one row and blank in the other,
\* w differs: only w is listed
C14_Witness ==
  /\ Done
  /\ result.allColumns = <<"w", "v", "id">>
  /\ \E i \in RowsOfType("UPDATED") :
       /\ result.rows[i]._meta_changed_columns = <<"w">>
       /\ "v" \notin DOMAIN baseMap.val[RowId(i)]
       /\ Get(liveMap.val[RowId(i)], "v") = Str(<<" ">>)

\* both non-key columns differ: they are listed in union order, w before v
C14_WitnessOrder ==
  /\ Done
  /\ \E i \in RowsOfType("UPDATED") :
       result.rows[i]._meta_changed_columns = <<"w", "v">>

(***************************************************************************)
(* Properties of App, under SpecApp                                        *)
(***************************************************************************)
\* a call of compareDatasets by App has returned
Called == pc = "done"

\* C15: caller-side key validation. Whatever the user did before (selected
\* and cleared files, chose a primary key or had it chosen automatically,
\* clicked Compare, started over), every call of compareDatasets by App
\* passes a primaryKey that is a declared column of the base dataset and of
\* the live dataset of that call.
C15_KeyDeclaredInBoth ==
  Called =>
    /\ \E n \in 1..Len(baseFile.columns) : baseFile.columns[n] = config.primaryKey
    /\ \E n \in 1..Len(liveFile.columns) : liveFile.columns[n] = config.primaryKey

\* the call that breaks C15: a.xlsx against b.xlsx with the key ID, which
\* b.xlsx does not declare; the one row of b.xlsx is left out of the result
C15_StaleKeyCall ==
  /\ Called
  /\ baseFile.name = "a.xlsx" /\ liveFile.name = "b.xlsx"
  /\ config.primaryKey = ColID
  /\ result.stats.removed = 1 /\ result.stats.total = 1

\* C16: whenever the result held by App is not null, the base file and the
\* live file held by App are not null and the result is what compareDatasets
\* returns for the baseFile, liveFile, primaryKey and ignoreCase App holds
\* now, however file reads, the deferred callback and user actions interleave.
C16_ResultMatchesState ==
  app.result # NoAppResult =>
    /\ app.baseFile # NoFile
    /\ app.liveFile # NoFile
    /\ app.result = compareDatasets(app.baseFile, app.liveFile,
                                    [primaryKey |-> app.primaryKey,
                                     ignoreCase |-> app.ignoreCase])

\* a result is shown while App holds no base file
C16_ResultWithoutBaseFile ==
  /\ app.result # NoAppResult
  /\ app.baseFile = NoFile
  /\ app.liveFile # NoFile

\* a result is shown that was computed with the other setting of ignoreCase
\* and differs from the result for the setting App holds
C16_ResultOfOtherIgnoreCase ==
  /\ app.result # NoAppResult
  /\ app.baseFile # NoFile /\ app.liveFile # NoFile
  /\ app.result = compareDatasets(app.baseFile, app.liveFile,
                                  [primaryKey |-> app.primaryKey,
                                   ignoreCase |-> ~app.ignoreCase])
  /\ app.result # compareDatasets(app.baseFile, app.liveFile,
                                  [primaryKey |-> app.primaryKey,
                                   ignoreCase |-> app.ignoreCase])

====
